---------------------------- MODULE Spec2Model ----------------------------
(***************************************************************************)
(* Model of the waf export tools of michelm/beehive:                       *)
(*   waftools/makefile.py            MakefileContext ('waf makefile')     *)
(*   waftools/exporter.py            ExportContext   ('waf export')       *)
(*   waftools/wafexport/makefile.py  the exporter's Makefile formatter    *)
(*   waftools/codeblocks.py          the Code::Blocks formatter           *)
(*                                                                         *)
(* A Python string is a sequence of characters.  A character is a TLA+    *)
(* string; a literal chunk of a format string that no code ever looks     *)
(* into (such as "mkdir -p ") is kept as one character.                    *)
(***************************************************************************)
EXTENDS Integers, Sequences, FiniteSets, TLC

\* ------------------------------------------------------------- bounds ---
\* Tasks the host build runs in one session.
MaxTasks == 2
\* Export sessions run in one process ('waf makefile makefile_debug').
MaxSessions == 2

\* ------------------------------------------------------------ strings ---
\* str.startswith
StartsWith(s, p) == Len(p) <= Len(s) /\ SubSeq(s, 1, Len(p)) = p

\* str.endswith
EndsWith(s, p) == Len(p) <= Len(s) /\ SubSeq(s, Len(s) - Len(p) + 1, Len(s)) = p

\* s[n:]
DropN(s, n) == SubSeq(s, n + 1, Len(s))

\* str.lstrip(chars): drops every leading character that is in the set chars
RECURSIVE LStrip(_, _)
LStrip(s, chars) ==
    IF s # <<>> /\ Head(s) \in chars THEN LStrip(Tail(s), chars) ELSE s

\* index of the last "/" of s, 0 when there is none
RECURSIVE LastSlash(_, _)
LastSlash(s, i) ==
    IF i = 0 THEN 0 ELSE IF s[i] = "/" THEN i ELSE LastSlash(s, i - 1)

\* os.path.basename
Basename(s) == DropN(s, LastSlash(s, Len(s)))

\* str.rstrip('/')
RECURSIVE RStripSlash(_)
RStripSlash(s) ==
    IF s # <<>> /\ s[Len(s)] = "/" THEN RStripSlash(SubSeq(s, 1, Len(s) - 1)) ELSE s

\* os.path.dirname (posixpath): the head up to the last "/", its trailing
\* slashes dropped unless it consists of slashes only
Dirname(s) ==
    LET head == SubSeq(s, 1, LastSlash(s, Len(s)))
    IN  IF RStripSlash(head) = <<>> THEN head ELSE RStripSlash(head)

\* sep.join(lst)
RECURSIVE Join(_, _)
Join(lst, sep) ==
    IF lst = <<>> THEN <<>>
    ELSE IF Len(lst) = 1 THEN lst[1]
    ELSE lst[1] \o sep \o Join(Tail(lst), sep)

\* [f(x) for x in lst]
Map(lst, f(_)) == [i \in 1..Len(lst) |-> f(lst[i])]

\* the elements of a list, as a set
Range(lst) == {lst[i] : i \in 1..Len(lst)}

\* ------------------------------------------------- the build's layout ---
\* bld.path.abspath(): the top level directory, "/r"
Root == <<"/", "r">>
\* bld.bldnode.path_from(bld.path): the build directory under it, "b"
Top == <<"b">>
\* bld.cwd, the directory commands run from when no cwd is given
BldCwd == Root \o <<"/">> \o Top
\* abspath() of a node of the build directory
BldAbs(rel) == BldCwd \o <<"/">> \o rel
\* ' \\\n\t', the separator between the arguments of a Makefile command
ArgSep == <<" \\\n\t">>
Tab == "\t"


\* ------------------------------------------------------ the tasks run ---
\* The value of task.command_executed: the attribute is absent ("unset"),
\* a list of strings, or a string.
CmdUnset == [kind |-> "unset", lst |-> <<>>, str |-> <<>>]
CmdList(l) == [kind |-> "list", lst |-> l, str |-> <<>>]
CmdStr(s) == [kind |-> "str", lst |-> <<>>, str |-> s]

\* A node of the build: its path below the build or the source directory.
BldNode(rel) == [bld |-> TRUE, rel |-> rel]
SrcNode(rel) == [bld |-> FALSE, rel |-> rel]
\* Node.abspath()
abspath(n) == IF n.bld THEN BldAbs(n.rel) ELSE Root \o <<"/">> \o n.rel
\* Node.relpath()
relpath(n) == n.rel

CC == <<"c", "c">>
ObjA == <<"a", ".", "o">>
SrcA == <<"a", ".", "c">>
ProgP == <<"p">>
LibX == <<"x", ".", "s", "o">>
DashO == <<"-", "o">>

\* The tasks the host build may run: class name, output, input and
\* dependency nodes, and the argument list its run() executes.  The object
\* the link tasks take is made by the C compiler or by the assembler.
TaskKinds ==
    { [cls |-> "c", outputs |-> <<BldNode(ObjA)>>, inputs |-> <<SrcNode(SrcA)>>,
       dep_nodes |-> <<>>,
       cmd |-> <<CC, <<"-", "I">> \o Root \o <<"/", "i">>, <<"-", "g">>,
                 <<".", ".", "/">> \o SrcA, DashO, ObjA>>],
      [cls |-> "cprogram", outputs |-> <<BldNode(ProgP)>>,
       inputs |-> <<BldNode(ObjA)>>, dep_nodes |-> <<>>,
       cmd |-> <<CC, ObjA, DashO, ProgP, <<"-", "L", ".">>, <<"-", "l", "x">>>>],
      [cls |-> "cshlib", outputs |-> <<BldNode(LibX)>>,
       inputs |-> <<BldNode(ObjA)>>, dep_nodes |-> <<>>,
       cmd |-> <<CC, ObjA, DashO, LibX>>],
      [cls |-> "copy", outputs |-> <<BldNode(<<"t">>)>>,
       inputs |-> <<SrcNode(<<"s">>)>>, dep_nodes |-> <<>>,
       cmd |-> <<<<"c", "p">>, <<"s">>, <<"t">>>>],
      [cls |-> "asm", outputs |-> <<BldNode(ObjA)>>,
       inputs |-> <<SrcNode(<<"a", ".", "S">>)>>, dep_nodes |-> <<>>,
       cmd |-> <<CC, <<"-", "c">>, <<".", ".", "/", "a", ".", "S">>, DashO, ObjA>>] }

CompileClasses == {"c", "cxx"}
LinkClasses == {"cprogram", "cshlib", "cstlib", "cxxprogram", "cxxshlib", "cxxstlib"}

\* How run() hands the command to exec_command: as a list, as one shell
\* string, or by keyword (no positional argument).
CallShapes == {"list", "str", "kw"}
\* What the original exec_command does: returns 0, returns non-zero, raises.
OrigOutcomes == {"ret0", "ret1", "raise"}
\* the cwd keyword argument, when given
KwCwd == <<"/", "w">>

NoTask ==
    [id |-> 0, cls |-> "", outputs |-> <<>>, inputs |-> <<>>, dep_nodes |-> <<>>,
     stage |-> "none", command_executed |-> CmdUnset,
     path |-> [set |-> FALSE, dir |-> <<>>],
     call |-> [k |-> CmdUnset, hasCwd |-> FALSE, orig |-> "none", result |-> "none",
               origCalls |-> 0, origArgs |-> [k |-> CmdUnset, hasCwd |-> FALSE]]]


\* ---------------------------------------------- the command interceptor ---
\* exec_command as patched n times over the original (layer 0): each layer
\* calls the one below with the same arguments and, when that returns,
\* stores the first positional argument and the working directory on the
\* task.  k is the first positional argument (CmdUnset when the command
\* is passed by keyword), orig what the original does; origCalls counts
\* the calls of the original and origArgs is what it was called with.
\* exec_command with a patch that drops the original's return value (the
\* caller sees None, as after a successful command)
exec_command_noreturn(n, t, k, hasCwd, orig) ==
    [task |-> IF n = 0 \/ orig = "raise" THEN t
              ELSE [t EXCEPT !.command_executed =
                                 IF k.kind = "unset" THEN CmdStr(<<>>) ELSE k,
                             !.path = [set |-> TRUE,
                                       dir |-> IF hasCwd THEN KwCwd ELSE BldCwd]],
     result |-> IF n = 0 \/ orig = "raise" THEN orig ELSE "ret0",
     origCalls |-> 1,
     origArgs |-> [k |-> k, hasCwd |-> hasCwd]]

RECURSIVE exec_command(_, _, _, _, _)
exec_command(n, t, k, hasCwd, orig) ==
    IF n = 0
    THEN [task |-> t, result |-> orig, origCalls |-> 1,
          origArgs |-> [k |-> k, hasCwd |-> hasCwd]]
    ELSE LET r == exec_command(n - 1, t, k, hasCwd, orig)
             cmd == IF k.kind = "unset" THEN CmdStr(<<>>) ELSE k
             cwd == IF hasCwd THEN KwCwd ELSE BldCwd
         IN  IF r.result = "raise"
             THEN r
             ELSE [r EXCEPT !.task.command_executed = cmd,
                            !.task.path = [set |-> TRUE, dir |-> cwd]]

\* ------------------------------------------------ the argument rewriter ---
DotDotSlash == <<".", ".", "/">>
DotO == <<".", "o">>
DotA == <<".", "a">>
DllA == <<".", "d", "l", "l", ".", "a">>
OutImplib == <<"-", "W", "l", ",", "-", "-", "o", "u", "t", "-", "i", "m", "p", "l", "i", "b", ",">>

\* c.split(','): the pieces of c between its commas
RECURSIVE SplitComma(_, _)
SplitComma(c, cur) ==
    IF c = <<>> THEN <<cur>>
    ELSE IF Head(c) = "," THEN <<cur>> \o SplitComma(Tail(c), <<>>)
    ELSE SplitComma(Tail(c), Append(cur, Head(c)))

\* one argument of a compile command, as makefile_compile rewrites it
CompileArg(c) ==
    LET inc == <<"-", "I">> \o Root
        c1 == IF StartsWith(c, inc) THEN <<"-", "I">> \o DropN(c, Len(inc) + 1)
              ELSE IF StartsWith(c, DotDotSlash) THEN LStrip(c, {".", "/"})
              ELSE c
    IN  IF EndsWith(c1, DotO) THEN Top \o <<"/">> \o c1 ELSE c1

\* one argument of a link command, as makefile_link rewrites it
LinkArg(c) ==
    LET c1 == IF StartsWith(c, DotDotSlash) THEN LStrip(c, {".", "/"})
              ELSE IF StartsWith(c, Root) THEN DropN(c, Len(Root) + 1)
              ELSE c
    IN  IF StartsWith(c1, <<"-", "L">>) THEN <<"-", "L">> \o Top \o <<"/">> \o DropN(c1, 2)
        ELSE IF StartsWith(c1, OutImplib)
             THEN OutImplib \o Top \o <<"/">> \o SplitComma(c1, <<>>)[3]
        ELSE IF EndsWith(c1, DotA) \/ EndsWith(c1, DotO) THEN Top \o <<"/">> \o c1
        ELSE c1

\* '%s' % task.command_executed, for the values the model gives it
FormatCmd(ce) == ce.str

\* "%s/%s" % (top, o.relpath())
TopPath(n) == Top \o <<"/">> \o relpath(n)

NotDllA(l) == ~EndsWith(l, DllA)

\* ------------------------------------------ MakefileContext's processing ---
\* bld.failure: None, or (exception, task, command)
NoFailure == [set |-> FALSE, err |-> "", tsk |-> 0, cmd |-> <<>>]

\* the text of the rule of a compile task: target, mkdir, command
CompileRule(target, ce) ==
    << target \o <<":">>,
       <<Tab, "mkdir -p ">> \o Dirname(target),
       <<Tab>> \o FormatCmd(ce) >>

\* the text of the rule of a link task: target, prerequisites, command
LinkRule(lst, ce) ==
    << Basename(Head(lst)) \o <<": \\">>,
       <<Tab>> \o Join(Tail(lst), ArgSep),
       <<Tab>> \o FormatCmd(ce) >>

\* makefile_compile(task), on b: the task and the attributes of bld
makefile_compile(b) ==
    LET t == b.task
        lst == Map(t.outputs, TopPath)
        raised == t.command_executed.kind = "unset"
        ce == IF t.command_executed.kind = "list"
              THEN CmdStr(Join(Map(t.command_executed.lst, CompileArg), ArgSep))
              ELSE t.command_executed
    IN  IF raised
        THEN [b EXCEPT !.targets = @ \o lst,
                       !.failure = [set |-> TRUE, err |-> "AttributeError",
                                    tsk |-> t.id, cmd |-> <<>>]]
        ELSE [b EXCEPT !.targets = @ \o lst,
                       !.task.command_executed = ce,
                       !.commands = @ \o CompileRule(Head(lst), ce)]

\* makefile_link(task)
makefile_link(b) ==
    LET t == b.task
        outs == Map(t.outputs, TopPath)
        deps == t.inputs \o t.dep_nodes
        lst == SelectSeq(outs \o Map(deps, TopPath), NotDllA)
        raised == t.command_executed.kind = "unset"
        ce == IF t.command_executed.kind = "list"
              THEN CmdStr(Join(Map(t.command_executed.lst, LinkArg), ArgSep))
              ELSE t.command_executed
    IN  IF raised
        THEN [b EXCEPT !.targets = @ \o outs,
                       !.failure = [set |-> TRUE, err |-> "AttributeError",
                                    tsk |-> t.id, cmd |-> <<>>]]
        ELSE [b EXCEPT !.targets = @ \o outs,
                       !.task.command_executed = ce,
                       !.commands = @ \o LinkRule(lst, ce)]

\* makefile_process with no filter on the class name: whatever is not a
\* link task is taken for a compile task
makefile_process_any(b) ==
    IF b.task.cls \in LinkClasses THEN makefile_link(b) ELSE makefile_compile(b)

\* makefile_process(task)
makefile_process(b) ==
    IF b.task.cls \in CompileClasses THEN makefile_compile(b)
    ELSE IF b.task.cls \in LinkClasses THEN makefile_link(b)
    ELSE b


\* ------------------------------------------------- the Makefile emitters ---
\* bld.env.PREFIX, BINDIR and LIBDIR
Prefix == <<"/", "u">>
BinDir == Prefix \o <<"/", "b", "i", "n">>
LibDir == Prefix \o <<"/", "l", "i", "b">>
\* what datetime.datetime.now() may return when an export runs
Times == {"t1", "t2"}

\* s.replace(old, new)
RECURSIVE Replace(_, _, _)
Replace(s, old, new) ==
    IF s = <<>> THEN <<>>
    ELSE IF StartsWith(s, old) THEN new \o Replace(DropN(s, Len(old)), old, new)
    ELSE <<Head(s)>> \o Replace(Tail(s), old, new)

\* t.split('.')[-1]
RECURSIVE LastDot(_, _)
LastDot(s, i) ==
    IF i = 0 THEN 0 ELSE IF s[i] = "." THEN i ELSE LastDot(s, i - 1)
LastExt(t) == DropN(t, LastDot(t, Len(t)))

\* re.sub('\A/home/.*?/', '~/', prefix)
RECURSIVE FirstSlashFrom(_, _)
FirstSlashFrom(s, i) ==
    IF i > Len(s) THEN 0 ELSE IF s[i] = "/" THEN i ELSE FirstSlashFrom(s, i + 1)
HomeSlash == <<"/", "h", "o", "m", "e", "/">>
TildeHome(prefix) ==
    IF StartsWith(prefix, HomeSlash) /\ FirstSlashFrom(prefix, Len(HomeSlash) + 1) > 0
    THEN <<"~", "/">> \o DropN(prefix, FirstSlashFrom(prefix, Len(HomeSlash) + 1))
    ELSE prefix

\* binaries taken to be the targets without an extension
IsBinaryNoExt(t) == LastDot(t, Len(t)) = 0
IsBinary(t) == LastExt(t) \notin {<<"a">>, <<"o">>, <<"s", "o">>}
IsDotSo(t) == EndsWith(t, <<".", "s", "o">>)
IsSo(t) == EndsWith(t, <<"s", "o">>)
\* every target reduced to its base name
AllNameBase(t) == Basename(t)
\* t if t.endswith('.o') else os.path.basename(t)
AllName(t) == IF EndsWith(t, DotO) THEN t ELSE Basename(t)

\* the lines of the header: project, version, waf version, time, PREFIX
Header(time, prefixShown) ==
    << <<"# This makefile has been generated by waf.">>, <<"#">>,
       <<"# project : ", "APPNAME">>, <<"# version : ", "VERSION">>,
       <<"# waf     : ", "WAFVERSION">>, <<"# time    : ", time>>, <<"#">>,
       <<"SHELL=/bin/sh">>, <<"PREFIX=">> \o prefixShown, <<>> >>

\* c if c.startswith('\t') else "\n%s" % c, joined: a blank line before
\* every line of the command list that does not start with a tab
RECURSIVE RuleLines(_)
RuleLines(cmds) ==
    IF cmds = <<>> THEN <<>>
    ELSE (IF StartsWith(cmds[1], <<Tab>>) THEN <<cmds[1]>> ELSE << <<>>, cmds[1] >>)
         \o RuleLines(Tail(cmds))

MkCp(dir, t) == <<"cp ">> \o t \o <<" ">> \o dir \o <<"/">> \o Basename(t)
\* the removal of the target's relative path below the directory
MkRmPath(dir, t) == <<"rm -rf ">> \o dir \o <<"/">> \o t
MkRm(dir, t) == <<"rm -rf ">> \o dir \o <<"/">> \o Basename(t)
RmTarget(t) == <<"rm -rf ">> \o t
SubPrefix(line) == Replace(line, Prefix, <<"$PREFIX">>)
NewLineTab == <<"\n\t">>

\* makefile_export(bld): the text written to the Makefile, as its lines
\* (MAKEFILE_TEMPLATE with every placeholder substituted, then the prefix
\* replaced throughout)
makefile_export(targets, commands, time) ==
    LET binaries == SelectSeq(targets, IsBinary)
        libraries == SelectSeq(targets, IsDotSo)
        tgt_all == Join(Map(SelectSeq(targets, NotDllA), AllName), ArgSep)
        tgt_clean == Join(Map(targets, RmTarget), NewLineTab)
        tgt_install == Join(Map(binaries, LAMBDA b : MkCp(BinDir, b))
                            \o Map(libraries, LAMBDA l : MkCp(LibDir, l)), NewLineTab)
        tgt_uninstall == Join(Map(binaries, LAMBDA b : MkRm(BinDir, b))
                              \o Map(libraries, LAMBDA l : MkRm(LibDir, l)), NewLineTab)
        lines == RuleLines(commands)
        rules == IF lines # <<>> /\ lines[1] = <<>> THEN Tail(lines) ELSE lines
        content ==
            Header(time, TildeHome(Prefix))
            \o << <<"all: \\">>, <<Tab>> \o tgt_all, <<>>,
                  <<"clean:">>, <<Tab>> \o tgt_clean, <<>>,
                  <<"install:">>, <<Tab, "mkdir -p ">> \o BinDir,
                  <<Tab, "mkdir -p ">> \o LibDir, <<Tab>> \o tgt_install, <<>>,
                  <<"uninstall:">>, <<Tab>> \o tgt_uninstall, <<>> >>
            \o rules \o << <<>>, <<>> >>
    IN  Map(content, SubPrefix)

\* the Makefile on disk: absent, or the lines a session wrote
NoFile == [exists |-> FALSE, lines |-> <<>>]
File(lines) == [exists |-> TRUE, lines |-> lines]

\* makefile_show_failure(bld): the text of the fatal message
makefile_show_failure(failure) ==
    [tsk |-> failure.tsk, err |-> failure.err, cmd |-> Join(failure.cmd, <<"\n     ">>)]


\* ----------------------------- the exporter's Makefile formatter ---
\* (waftools/wafexport/makefile.py; bld.makefile_targets and
\* bld.makefile_commands are the fields targets and commands of b)

\* bld.export_exception: absent, or (__file__, e, task)
NoException == [set |-> FALSE, err |-> "", tsk |-> 0]

\* _selected(bld) of the Makefile formatter
makefile_selected(export_to) == Range(export_to) \cap {"all", "makefile"} # {}

\* _compile_task(task)
compile_task(b) ==
    LET t == b.task
        lst == Map(t.outputs, TopPath)
        raised == t.command_executed.kind = "unset"
        ce == IF t.command_executed.kind = "list"
              THEN CmdStr(Join(Map(t.command_executed.lst, CompileArg), ArgSep))
              ELSE t.command_executed
    IN  IF raised
        THEN [b EXCEPT !.targets = @ \o lst,
                       !.export_exception = [set |-> TRUE, err |-> "AttributeError",
                                             tsk |-> t.id]]
        ELSE [b EXCEPT !.targets = @ \o lst,
                       !.task.command_executed = ce,
                       !.commands = @ \o CompileRule(Head(lst), ce)]

\* _link_task(task)
link_task(b) ==
    LET t == b.task
        outs == Map(t.outputs, TopPath)
        deps == t.inputs \o t.dep_nodes
        lst == SelectSeq(outs \o Map(deps, TopPath), NotDllA)
        raised == t.command_executed.kind = "unset"
        ce == IF t.command_executed.kind = "list"
              THEN CmdStr(Join(Map(t.command_executed.lst, LinkArg), ArgSep))
              ELSE t.command_executed
    IN  IF raised
        THEN [b EXCEPT !.targets = @ \o outs,
                       !.export_exception = [set |-> TRUE, err |-> "AttributeError",
                                             tsk |-> t.id]]
        ELSE [b EXCEPT !.targets = @ \o outs,
                       !.task.command_executed = ce,
                       !.commands = @ \o LinkRule(lst, ce)]

\* process(task) of the Makefile formatter
wafexport_makefile_process(b) ==
    IF ~makefile_selected(b.export_to) THEN b
    ELSE IF b.task.cls \in CompileClasses THEN compile_task(b)
    ELSE IF b.task.cls \in LinkClasses THEN link_task(b)
    ELSE b

ExCp(dir, t) == <<Tab, "cp ">> \o t \o <<"  ">> \o dir \o <<"/">> \o Basename(t)
ExRm(dir, t) == <<Tab, "rm -rf  ">> \o dir \o <<"/">> \o Basename(t)
ExRmTarget(t) == <<Tab, "rm -rf  ">> \o t
SubPrefixParen(line) == Replace(line, Prefix, <<"$(PREFIX)">>)

\* _export_makefile(bld): the text written, as its lines; called with a
\* target list that is not empty
export_makefile(targets, commands, time) ==
    LET tgt == Map(SelectSeq(targets, NotDllA), AllName)
        lines ==
            << <<"all: \\">>, <<Tab>> \o Join(tgt, ArgSep), <<>>, <<"clean:">> >>
            \o Map(targets, ExRmTarget)
            \o << <<>>, <<"install:">>, <<Tab, "mkdir -p ">> \o BinDir,
                  <<Tab, "mkdir -p ">> \o LibDir >>
            \o Map(SelectSeq(targets, IsBinary), LAMBDA t : ExCp(BinDir, t))
            \o Map(SelectSeq(targets, IsSo), LAMBDA t : ExCp(LibDir, t))
            \o << <<>>, <<"uninstall:">> >>
            \o Map(SelectSeq(targets, IsBinary), LAMBDA t : ExRm(BinDir, t))
            \o Map(SelectSeq(targets, IsSo), LAMBDA t : ExRm(LibDir, t))
            \o RuleLines(commands)
            \o << <<Tab, "\n">> >>
    IN  Header(time, Prefix) \o Map(lines, SubPrefixParen)

\* ------------------------------------- the Code::Blocks formatter ---
\* _selected(bld) of the Code::Blocks formatter
codeblocks_selected(export_to) == Range(export_to) \cap {"all", "codeblocks"} # {}

\* 'sub' in s
Contains(s, sub) == \E i \in 0..Len(s) : StartsWith(DropN(s, i), sub)

Mingw32 == <<"m", "i", "n", "g", "w", "3", "2">>
\* _codeblocks_get_compiler(bld, cc)
codeblocks_get_compiler(env, cc) ==
    IF Contains(Basename(cc), Mingw32) THEN Mingw32 \o <<"g", "c", "c">>
    ELSE IF env.DEST_CPU = <<"a", "r", "m">> THEN <<"a", "r", "m", "e", "l", "f", "g", "c", "c">>
    ELSE Basename(cc)

\* [str(x) for x in task.command_executed]: the items of a list, or the
\* characters of a string
CommandItems(ce) ==
    IF ce.kind = "list" THEN ce.lst ELSE [i \in 1..Len(ce.str) |-> <<ce.str[i]>>]

\* d[key] = c
Put(d, key, c) == [k \in DOMAIN d \cup {key} |-> IF k = key THEN c ELSE d[k]]

\* process(task) of the Code::Blocks formatter; b.crash names the
\* exception that leaves it, if any
codeblocks_process(b) ==
    LET t == b.task
        key == abspath(t.outputs[1])
        command == CommandItems(t.command_executed)
    IN  IF ~codeblocks_selected(b.export_to) THEN b
        ELSE IF t.cls \notin CompileClasses \cup LinkClasses THEN b
        ELSE IF t.command_executed.kind = "unset" THEN [b EXCEPT !.crash = "AttributeError"]
        ELSE IF command = <<>> THEN [b EXCEPT !.crash = "IndexError"]
        ELSE [b EXCEPT !.components =
                Put(@, key,
                    [name |-> Basename(key), type |-> t.cls,
                     inputs |-> Map(t.inputs, abspath),
                     outputs |-> Map(t.outputs, abspath),
                     depends |-> Map(t.dep_nodes, abspath),
                     command |-> command,
                     compiler |-> codeblocks_get_compiler(b.env, command[1])])]


\* ------------------------------- Code::Blocks projects and workspace ---
\* A project file (.cbp) is modelled by what the exporter reads and writes:
\* the project title, the Target elements of Build in document order, the
\* filenames of the Unit elements in document order, and whether there is
\* an Extensions element.  list(set(...)) has no defined order: flags,
\* includes, libraries and library paths of a target are sets.
NoDoc == [exists |-> FALSE, title |-> <<>>, targets |-> <<>>, units |-> <<>>, ext |-> FALSE]
\* CODEBLOCKS_CBP_PROJECT
CODEBLOCKS_CBP_PROJECT ==
    [exists |-> TRUE, title |-> <<"c", "p", "r", "o", "g", "r", "a", "m">>,
     targets |-> <<>>, units |-> <<>>, ext |-> FALSE]

\* lst.remove(x): lst without the first x
RECURSIVE RemoveFirst(_, _)
RemoveFirst(lst, x) ==
    IF lst = <<>> THEN <<>>
    ELSE IF Head(lst) = x THEN Tail(lst)
    ELSE <<Head(lst)>> \o RemoveFirst(Tail(lst), x)

\* for x in olds: lst.remove(x) -- ok is FALSE when a remove raises
\* ValueError because x is not in the list
RECURSIVE RemoveEach(_, _)
RemoveEach(lst, olds) ==
    IF olds = <<>> THEN [ok |-> TRUE, rest |-> lst]
    ELSE IF Head(olds) \notin Range(lst) THEN [ok |-> FALSE, rest |-> lst]
    ELSE RemoveEach(RemoveFirst(lst, Head(olds)), Tail(olds))

\* the concatenation of a list of lists
RECURSIVE Flatten(_)
Flatten(ll) == IF ll = <<>> THEN <<>> ELSE Head(ll) \o Flatten(Tail(ll))

\* name.split('.')[0]
RECURSIVE FirstPiece(_)
FirstPiece(s) ==
    IF s = <<>> \/ Head(s) = "." THEN <<>> ELSE <<Head(s)>> \o FirstPiece(Tail(s))

GGDB == <<"-", "g", "g", "d", "b">>
DebugSuffix == <<"-", "d", "e", "b", "u", "g">>
\* "%s-%s" % (bld.env.DEST_OS, bld.env.DEST_CPU)
TargetTitle(env) == env.DEST_OS \o <<"-">> \o env.DEST_CPU

IsInclude(cmd) == StartsWith(cmd, <<"-", "I">>)
IsCflag(cmd) ==
    ~IsInclude(cmd) /\ StartsWith(cmd, <<"-">>) /\ cmd \notin {<<"-", "c">>, <<"-", "o">>}
IsLib(cmd) == StartsWith(cmd, <<"-", "l">>)
IsLibPath(cmd) == ~IsLib(cmd) /\ StartsWith(cmd, <<"-", "L">>)
IsLflag(cmd) == StartsWith(cmd, <<"-", "W", "l">>)

\* the filename of a Unit as _codeblocks_project compares it
UnitSource(filename) ==
    LET src == [i \in 1..Len(filename) |-> IF filename[i] = "\\" THEN "/" ELSE filename[i]]
    IN  IF StartsWith(src, DotDotSlash) THEN Root \o DropN(src, 2) ELSE src

ctypes(type) ==
    CASE type \in {"cprogram", "cxxprogram"} -> "1"
      [] type \in {"cshlib", "cxxshlib"} -> "3"
      [] type \in {"cstlib", "cxxstlib"} -> "2"

\* targets without those whose title is the title
KeepTargetsExact(targets, title) ==
    LET Other(t) == t.title # title IN SelectSeq(targets, Other)

\* targets without those whose title starts with the title
KeepTargets(targets, title) ==
    LET Other(t) == ~StartsWith(t.title, title) IN SelectSeq(targets, Other)

\* _codeblocks_project(bld, path, component) on the project file found on
\* disk (NoDoc when there is none): crash names the exception that leaves
\* it ("" when it returns), doc is the file as saved, name the project's
\* name, depends the library names it returns (a set: list(set(libs)))
codeblocks_project(env, components, component, file) ==
    LET inputsKnown == \A i \in 1..Len(component.inputs) :
                          component.inputs[i] \in DOMAIN components
        objcmds == Flatten([i \in 1..Len(component.inputs) |->
                              components[component.inputs[i]].command])
        cflags == Range(SelectSeq(objcmds, IsCflag))
        includes == {LStrip(c, {"-", "I"}) : c \in Range(SelectSeq(objcmds, IsInclude))}
        lflags == Range(SelectSeq(component.command, IsLflag))
        libs == {LStrip(c, {"-", "l"}) : c \in Range(SelectSeq(component.command, IsLib))}
        libpaths == {BldCwd \o <<"/">> \o LStrip(c, {"-", "L"}) :
                        c \in Range(SelectSeq(component.command, IsLibPath))}
        name == FirstPiece(component.name)
        root == IF file.exists THEN file ELSE CODEBLOCKS_CBP_PROJECT
        title == TargetTitle(env)
        target == [title |-> IF GGDB \in cflags THEN title \o DebugSuffix ELSE title,
                   output |-> component.outputs[1],
                   type |-> ctypes(component.type),
                   compiler |-> component.compiler,
                   cflags |-> cflags, includes |-> includes,
                   lflags |-> lflags, libs |-> libs, libpaths |-> libpaths]
        sources == Flatten([i \in 1..Len(component.inputs) |->
                              components[component.inputs[i]].inputs])
        left == RemoveEach(sources, Map(root.units, UnitSource))
    IN  IF ~inputsKnown
        THEN [crash |-> "KeyError", doc |-> file, name |-> name, depends |-> {}]
        ELSE IF ~left.ok
        THEN [crash |-> "ValueError", doc |-> file, name |-> name, depends |-> libs]
        ELSE [crash |-> "", name |-> name, depends |-> libs,
              doc |-> [exists |-> TRUE, title |-> name,
                       targets |-> Append(KeepTargets(root.targets, title), target),
                       units |-> root.units \o left.rest,
                       ext |-> TRUE]]

\* The workspace file: the Project elements in document order, each with
\* its filename and the filenames of its Depends elements in order.
NoWorkspace == [exists |-> FALSE, projects |-> <<>>]
\* CODEBLOCKS_WORKSPACE
CODEBLOCKS_WORKSPACE == [exists |-> TRUE, projects |-> <<>>]

\* the first loop of _codeblocks_workspace: the Project elements from the
\* i-th on, with the dict projects (a function from names to lists)
RECURSIVE UpdateProjects(_, _, _)
UpdateProjects(elems, i, projects) ==
    IF i > Len(elems) THEN [crash |-> "", elems |-> elems, projects |-> projects]
    ELSE IF elems[i].filename \notin DOMAIN projects
         THEN UpdateProjects(elems, i + 1, projects)
    ELSE LET left == RemoveEach(projects[elems[i].filename], elems[i].depends)
         IN  IF ~left.ok
             THEN [crash |-> "ValueError", elems |-> elems, projects |-> projects]
             ELSE UpdateProjects(
                    [elems EXCEPT ![i].depends = @ \o left.rest], i + 1,
                    [n \in DOMAIN projects \ {elems[i].filename} |-> projects[n]])

\* _codeblocks_workspace(path, projects) on the workspace file found on
\* disk; order lists the keys of projects as projects.items() yields them
codeblocks_workspace(file, projects, order) ==
    LET root == IF file.exists THEN file ELSE CODEBLOCKS_WORKSPACE
        upd == UpdateProjects(root.projects, 1, projects)
        IsNew(n) == n \in DOMAIN upd.projects
        NewElem(n) == [filename |-> n, depends |-> upd.projects[n]]
    IN  IF upd.crash # ""
        THEN [crash |-> upd.crash, doc |-> file]
        ELSE [crash |-> "",
              doc |-> [exists |-> TRUE,
                       projects |-> upd.elems \o Map(SelectSeq(order, IsNew), NewElem)]]


\* a list of the elements of a set, in some order
RECURSIVE SetToSeq(_)
SetToSeq(S) ==
    IF S = {} THEN <<>>
    ELSE LET x == CHOOSE y \in S : TRUE IN <<x>> \o SetToSeq(S \ {x})

\* the permutations of a set, as lists
RECURSIVE Perms(_)
Perms(S) ==
    IF S = {} THEN {<<>>}
    ELSE UNION {{<<x>> \o p : p \in Perms(S \ {x})} : x \in S}

\* os.path.basename(fname) of the project file of a component
CbpName(name) == name \o <<".", "c", "b", "p">>

\* the project file of that name on disk
DiskGet(disk, name) == IF name \in DOMAIN disk THEN disk[name] ELSE NoDoc

\* the loop of postfun over the link components, taken in the order the
\* dict yields them, from the i-th on
RECURSIVE ExportProjects(_, _, _, _, _, _)
ExportProjects(env, components, order, i, disk, projects) ==
    IF i > Len(order) THEN [crash |-> "", cbp |-> disk, projects |-> projects]
    ELSE LET name == FirstPiece(components[order[i]].name)
             r == codeblocks_project(env, components, components[order[i]],
                                     DiskGet(disk, CbpName(name)))
         IN  IF r.crash # ""
             THEN [crash |-> r.crash, cbp |-> disk, projects |-> projects]
             ELSE ExportProjects(env, components, order, i + 1,
                                 Put(disk, CbpName(name), r.doc),
                                 Put(projects, CbpName(name), SetToSeq(r.depends)))

LinkKeys(components) == {k \in DOMAIN components : components[k].type \in LinkClasses}

\* postfun(bld) of the Code::Blocks formatter, when selected
codeblocks_postfun(env, components, order, disk, ws) ==
    LET r == ExportProjects(env, components, order, 1, disk, <<>>)
        w == codeblocks_workspace(ws, r.projects, SetToSeq(DOMAIN r.projects))
    IN  IF r.crash # "" THEN [crash |-> r.crash, cbp |-> r.cbp, workspace |-> ws]
        ELSE [crash |-> w.crash, cbp |-> r.cbp, workspace |-> w.doc]

\* ------------------------------------------------------ the cppcheck task ---
\* the longest report of the analyzer tried
MaxDefects == 2

\* The <error> elements of the analyzer's xml report, attributes as the xml
\* parser returns them: the severity, the message (plain, with a '<', with
\* an '&') and the file of the <location>, "" when the element has none.
Defects ==
    [severity : {"error", "style"},
     msg : {<<"m">>, <<"a", "<", "b">>, <<"&", "&">>},
     file : {"", "a.c", "d.c"}]

\* _get_report(xml_string): in the message '<' is replaced by '&lt;'
get_report(stderr) ==
    [i \in 1..Len(stderr) |->
        [stderr[i] EXCEPT !.msg = Replace(@, <<"<">>, <<"&lt;">>)]]

\* ElementTree.fromstring accepts the markup the text is put in: the text
\* holds no '<' and no '&' outside an entity
WellFormed(text) == \A i \in 1..Len(text) : text[i] \notin {"<", "&"}

\* the files of the report: reports with a 'file', by name
ReportedFiles(report) ==
    {report[i].file : i \in {j \in 1..Len(report) : report[j].file # ""}}

\* the files the task writes below the build directory of the generator:
\* the pages 'cppcheck/%i.html', and the xml report, the index and the css
HtmlFile(i) == <<"cppcheck/", <<"0", "1", "2", "3">>[i + 1], ".html">>
ReportFiles ==
    [xml |-> <<"cppcheck.xml">>, index |-> <<"cppcheck/", "index", ".html">>,
     css |-> <<"cppcheck/", "style", ".css">>]

\* run(), with the evaluation of the errors before the html report
run_steps_evaluate_first ==
    <<"cmd_and_log", "_errors_evaluate", "_create_html_files", "_create_html_index",
      "_create_css_file">>
\* run(): what it does, in this order, before it returns 0
run_steps ==
    <<"cmd_and_log", "_create_html_files", "_create_html_index", "_create_css_file",
      "_errors_evaluate">>

\* no cppcheck task was created
NoCppcheck ==
    [step |-> 0, fatal |-> <<>>, report |-> <<>>, written |-> {}, logged |-> FALSE,
     result |-> "none"]


\* ------------------------------------------------- the export session ---

VARIABLES
    ctx,              \* the command run: "makefile" (MakefileContext) or "export"
    export_to,        \* bld.export_to: options.export_to.split(',')
    env,              \* bld.env: DEST_OS and DEST_CPU
    pc,               \* where execute() is
    nwrap,            \* how many times this process patched Task.TaskBase
    nsess,            \* sessions started in this process
    ntasks,           \* tasks the host processed in this session
    built,            \* outputs of the tasks that ran in this session
    hostError,        \* the host's producer.error: a task failed
    task,             \* the task being processed, or the last one processed
    targets,          \* bld.targets / bld.makefile_targets
    commands,         \* bld.commands / bld.makefile_commands
    failure,          \* bld.failure
    export_exception, \* bld.export_exception
    components,       \* bld.codeblocks_components
    makefile,         \* the Makefile on disk
    cbp,              \* the project files on disk, by file name
    workspace,        \* codeblocks.workspace on disk
    error,            \* how the command ended, when it did not end well
    warned,           \* what the Makefile emitter logged with Logs.warn
    cppcheck          \* the cppcheck task of a task generator

vars == <<ctx, export_to, env, pc, nwrap, nsess, ntasks, built, hostError, task,
          targets, commands, failure, export_exception, components, makefile,
          cbp, workspace, error, warned, cppcheck>>

\* ExportContext.exporters
exporters == {"all", "makefile", "codeblocks"}

\* The --export-to options tried, after split(','): '' gives [''].
ExportSelections ==
    { <<"">>, <<"makefile">>, <<"codeblocks">>, <<"all">>,
      <<"makefile", "codeblocks">>, <<"foo">>, <<"makefile", "foo">>,
      <<"foo", "codeblocks">>, <<"foo", "bar">> }

Linux == <<"l", "i", "n", "u", "x">>
X86 == <<"x", "8", "6">>
X86_64 == <<"x", "8", "6", "_", "6", "4">>

NoError == [kind |-> "", what |-> "", tsk |-> 0]

Init ==
    /\ \/ ctx = "makefile" /\ export_to = <<"makefile">>
       \/ ctx = "export" /\ export_to \in ExportSelections
    /\ env = [DEST_OS |-> Linux, DEST_CPU |-> X86]
    /\ pc = "idle"
    /\ nwrap = 0
    /\ nsess = 0
    /\ ntasks = 0
    /\ built = {}
    /\ hostError = FALSE
    /\ task = NoTask
    /\ targets = <<>>
    /\ commands = <<>>
    /\ failure = NoFailure
    /\ export_exception = NoException
    /\ components = <<>>
    /\ makefile = NoFile
    /\ cbp = <<>>
    /\ workspace = NoWorkspace
    /\ error = NoError
    /\ warned = {}
    /\ cppcheck = NoCppcheck


\* process as patched n times over the original by MakefileContext: each
\* layer runs the one below, then makefile_process (the original, layer 0,
\* runs the task: see RunTask)
RECURSIVE makefile_context_process(_, _)
makefile_context_process(n, b) ==
    IF n = 0 THEN b ELSE makefile_process(makefile_context_process(n - 1, b))

\* process as patched n times by ExportContext: the layer below, then
\* makefile.process, then codeblocks.process; an exception ends it
RECURSIVE export_context_process(_, _)
export_context_process(n, b) ==
    IF n = 0 THEN b
    ELSE LET b1 == export_context_process(n - 1, b)
         IN  IF b1.crash # "" THEN b1
             ELSE codeblocks_process(wafexport_makefile_process(b1))

\* MakefileContext.execute, up to the clean: the lists are reset, the
\* two methods patched and the post function is registered
MakefileContext_execute ==
    /\ ctx = "makefile" /\ pc = "idle"
    /\ failure' = NoFailure
    /\ commands' = <<>>
    /\ targets' = <<>>
    /\ nwrap' = nwrap + 1
    /\ nsess' = nsess + 1
    /\ pc' = "patched"
    /\ UNCHANGED <<cppcheck, warned,
                   ctx, export_to, env, ntasks, built, hostError, task,
                   export_exception, components, makefile, cbp, workspace, error>>

\* ExportContext.execute, up to the clean: the selection is checked, the
\* two methods are patched and the post function is registered
ExportContext_execute ==
    /\ ctx = "export" /\ pc = "idle"
    /\ nsess' = nsess + 1
    /\ IF Range(export_to) \cap exporters = {}
       THEN /\ pc' = "fatal"
            /\ error' = [kind |-> "fatal", what |-> "Invalid export format(s)", tsk |-> 0]
            /\ nwrap' = nwrap
       ELSE /\ pc' = "patched"
            /\ error' = error
            /\ nwrap' = nwrap + 1
    /\ UNCHANGED <<cppcheck, warned,
                   ctx, export_to, env, ntasks, built, hostError, task, targets,
                   commands, failure, export_exception, components, makefile, cbp,
                   workspace>>

\* the clean run first, before the methods are patched and the post
\* function is registered
CleanBeforePatch ==
    /\ pc = "idle"
    /\ pc' = "cleaned"
    /\ built' = {}
    /\ UNCHANGED <<cppcheck, warned,
                   ctx, export_to, env, nwrap, nsess, ntasks, hostError, task,
                   targets, commands, failure, export_exception, components,
                   makefile, cbp, workspace, error>>

\* Scripting.run_command('clean')
Clean ==
    /\ pc = "patched"
    /\ pc' = "cleaned"
    /\ built' = {}
    /\ UNCHANGED <<cppcheck, warned,
                   ctx, export_to, env, nwrap, nsess, ntasks, hostError, task,
                   targets, commands, failure, export_exception, components,
                   makefile, cbp, workspace, error>>

\* the exporters' init (ExportContext only), then the host build starts
BuildStart ==
    /\ pc = "cleaned"
    /\ pc' = "build"
    /\ IF ctx = "export" /\ makefile_selected(export_to)
       THEN commands' = <<>> /\ targets' = <<>>
       ELSE UNCHANGED <<commands, targets>>
    /\ IF ctx = "export" /\ codeblocks_selected(export_to)
       THEN components' = <<>>
       ELSE UNCHANGED components
    /\ UNCHANGED <<cppcheck, warned,
                   ctx, export_to, env, nwrap, nsess, ntasks, built, hostError,
                   task, failure, export_exception, makefile, cbp, workspace, error>>

\* a task of the kind, as the host creates it
NewTask(kind, id) ==
    [NoTask EXCEPT !.id = id, !.cls = kind.cls, !.outputs = kind.outputs,
                   !.inputs = kind.inputs, !.dep_nodes = kind.dep_nodes]

\* the first positional argument of the call of exec_command
Positional(kind, shape) ==
    CASE shape = "list" -> CmdList(kind.cmd)
      [] shape = "str" -> CmdStr(Join(kind.cmd, <<" ">>))
      [] shape = "kw" -> CmdUnset

\* the host may run the kind now: no task made its output yet, and the
\* tasks that make its inputs have run
Runnable(kind) ==
    /\ \A x \in built : x.rel # kind.outputs[1].rel
    /\ \A i \in 1..Len(kind.inputs) :
          kind.inputs[i].bld => [rel |-> kind.inputs[i].rel, ok |-> TRUE] \in built

\* The host runs a task (the original process, called by the patched
\* one): its run() calls exec_command, which is the patched one.  Once a
\* task has failed the host starts no other.
RunTask ==
    /\ pc = "build" /\ task.stage # "ran" /\ ntasks < MaxTasks /\ ~hostError
    /\ \E kind \in TaskKinds, shape \in CallShapes, hasCwd \in BOOLEAN,
          orig \in OrigOutcomes :
          /\ Runnable(kind)
          /\ LET r == exec_command(nwrap, NewTask(kind, ntasks + 1),
                                   Positional(kind, shape), hasCwd, orig)
             IN  task' = [r.task EXCEPT
                            !.stage = "ran",
                            !.call = [k |-> Positional(kind, shape), hasCwd |-> hasCwd,
                                      orig |-> orig, result |-> r.result,
                                      origCalls |-> r.origCalls,
                                      origArgs |-> r.origArgs]]
          /\ built' = built \cup {[rel |-> kind.outputs[1].rel, ok |-> orig = "ret0"]}
          /\ hostError' = (hostError \/ orig # "ret0")
    /\ ntasks' = ntasks + 1
    /\ UNCHANGED <<cppcheck, warned,
                   ctx, export_to, env, pc, nwrap, nsess, targets, commands, failure,
                   export_exception, components, makefile, cbp, workspace, error>>

\* The host runs a task whose run() does not go through exec_command.
RunTaskNoExec ==
    /\ pc = "build" /\ task.stage # "ran" /\ ntasks < MaxTasks /\ ~hostError
    /\ \E kind \in TaskKinds :
          /\ Runnable(kind)
          /\ task' = [NewTask(kind, ntasks + 1) EXCEPT !.stage = "ran"]
          /\ built' = built \cup {[rel |-> kind.outputs[1].rel, ok |-> TRUE]}
    /\ ntasks' = ntasks + 1
    /\ UNCHANGED <<cppcheck, warned,
                   ctx, export_to, env, pc, nwrap, nsess, hostError, targets, commands,
                   failure, export_exception, components, makefile, cbp, workspace,
                   error>>

\* The rest of the patched process, after the task ran: the formatters.
Process ==
    /\ pc = "build" /\ task.stage = "ran"
    /\ LET b0 == [task |-> task, targets |-> targets, commands |-> commands,
                  failure |-> failure, export_exception |-> export_exception,
                  components |-> components, crash |-> "",
                  export_to |-> export_to, env |-> env]
           b == IF ctx = "makefile" THEN makefile_context_process(nwrap, b0)
                ELSE export_context_process(nwrap, b0)
       IN  /\ task' = [b.task EXCEPT !.stage = "processed"]
           /\ targets' = b.targets
           /\ commands' = b.commands
           /\ failure' = b.failure
           /\ export_exception' = b.export_exception
           /\ components' = b.components
           /\ IF b.crash # ""
              THEN /\ pc' = "crash"
                   /\ error' = [kind |-> "crash", what |-> b.crash, tsk |-> task.id]
              ELSE UNCHANGED <<pc, error>>
    /\ UNCHANGED <<cppcheck, warned,
                   ctx, export_to, env, nwrap, nsess, ntasks, built, hostError,
                   makefile, cbp, workspace>>

\* The host's compile() raises BuildError when a task failed: the post
\* functions are not run.
BuildError ==
    /\ pc = "build" /\ task.stage # "ran" /\ hostError
    /\ pc' = "builderror"
    /\ error' = [kind |-> "BuildError", what |-> "", tsk |-> 0]
    /\ UNCHANGED <<cppcheck, warned,
                   ctx, export_to, env, nwrap, nsess, ntasks, built, hostError, task,
                   targets, commands, failure, export_exception, components,
                   makefile, cbp, workspace>>

\* the messages the Makefile emitters log with Logs.warn
NoTargetsWarning == "makefile export failed: no suitable C/C++ targets found"
ExportedWarning == "exported: Makefile"

\* postfun of MakefileContext, run by the host after the build
MakefilePostfun ==
    /\ ctx = "makefile" /\ pc = "build" /\ task.stage # "ran" /\ ~hostError
    /\ IF failure.set
       THEN /\ pc' = "fatal"
            /\ error' = [kind |-> "fatal", what |-> "export failure",
                         tsk |-> makefile_show_failure(failure).tsk]
            /\ UNCHANGED <<makefile, warned>>
       ELSE IF Len(targets) = 0
       THEN /\ pc' = "done"
            /\ warned' = warned \cup {NoTargetsWarning}
            /\ UNCHANGED <<error, makefile>>
       ELSE /\ pc' = "done"
            /\ \E time \in Times : makefile' = File(makefile_export(targets, commands, time))
            /\ warned' = warned \cup {ExportedWarning}
            /\ UNCHANGED error
    /\ UNCHANGED <<cppcheck, ctx, export_to, env, nwrap, nsess, ntasks, built, hostError, task,
                   targets, commands, failure, export_exception, components, cbp,
                   workspace>>

\* postfun of ExportContext: makefile.postfun, then codeblocks.postfun
ExportPostfun ==
    /\ ctx = "export" /\ pc = "build" /\ task.stage # "ran" /\ ~hostError
    /\ IF makefile_selected(export_to) /\ Len(targets) # 0
       THEN /\ \E time \in Times :
                  makefile' = File(export_makefile(targets, commands, time))
            /\ warned' = warned \cup {ExportedWarning}
       ELSE UNCHANGED <<makefile, warned>>
    /\ IF codeblocks_selected(export_to)
       THEN \E order \in Perms(LinkKeys(components)) :
               LET r == codeblocks_postfun(env, components, order, cbp, workspace)
               IN  /\ cbp' = r.cbp
                   /\ workspace' = r.workspace
                   /\ IF r.crash # ""
                      THEN /\ pc' = "crash"
                           /\ error' = [kind |-> "crash", what |-> r.crash, tsk |-> 0]
                      ELSE pc' = "done" /\ UNCHANGED error
       ELSE pc' = "done" /\ UNCHANGED <<cbp, workspace, error>>
    /\ UNCHANGED <<cppcheck, ctx, export_to, env, nwrap, nsess, ntasks, built,
                   hostError, task, targets, commands, failure, export_exception,
                   components>>

\* The next command of the same waf run starts in the same process, with a
\* context object and a variant of its own: the patches and the codeblocks
\* directory stay, and makefile is from now on the file of the new variant.
NextSession ==
    /\ pc = "done" /\ nsess < MaxSessions
    /\ pc' = "idle"
    /\ ntasks' = 0
    /\ built' = {}
    /\ task' = NoTask
    /\ targets' = <<>>
    /\ commands' = <<>>
    /\ failure' = NoFailure
    /\ export_exception' = NoException
    /\ components' = <<>>
    /\ makefile' = NoFile
    /\ warned' = {}
    /\ UNCHANGED <<cppcheck, ctx, export_to, env, nwrap, nsess, hostError, cbp, workspace, error>>

Next ==
    \/ MakefileContext_execute
    \/ ExportContext_execute
    \/ Clean
    \/ BuildStart
    \/ RunTask
    \/ RunTaskNoExec
    \/ Process
    \/ BuildError
    \/ MakefilePostfun
    \/ ExportPostfun
    \/ NextSession

Spec == Init /\ [][Next]_vars


\* ------------------------- repeated exports into one codeblocks directory ---
\* A project built from some of two sources, with or without -ggdb, linked
\* against one library or none, is exported by one waf run after another,
\* each configured for some DEST_OS/DEST_CPU pair.
SrcD == <<"d", ".", "c">>
ObjD == <<"d", ".", "o">>
ObjOf(src) == IF src = SrcA THEN ObjA ELSE ObjD
Win32 == <<"w", "i", "n", "3", "2">>
CbEnvs ==
    { [DEST_OS |-> Linux, DEST_CPU |-> X86], [DEST_OS |-> Linux, DEST_CPU |-> X86_64],
      [DEST_OS |-> Win32, DEST_CPU |-> X86] }
CbSources == { <<SrcA>>, <<SrcD>>, <<SrcA, SrcD>> }
CbLibs == { <<>>, <<<<"-", "l", "x">>>>, <<<<"-", "l", "y">>>>, <<<<"-", "l", "l", "z">>>> }

\* the compile task of a source, after it ran
CbCompile(src, debug, id) ==
    [NoTask EXCEPT
       !.id = id, !.cls = "c", !.stage = "ran",
       !.outputs = <<BldNode(ObjOf(src))>>, !.inputs = <<SrcNode(src)>>,
       !.command_executed =
           CmdList(<<CC, <<"-", "I">> \o Root \o <<"/", "i">>>>
                   \o (IF debug THEN <<GGDB>> ELSE <<>>)
                   \o <<DotDotSlash \o src, DashO, ObjOf(src)>>)]

\* the link task of the program, after it ran
CbLink(srcs, lib, id) ==
    [NoTask EXCEPT
       !.id = id, !.cls = "cprogram", !.stage = "ran",
       !.outputs = <<BldNode(ProgP)>>,
       !.inputs = [i \in 1..Len(srcs) |-> BldNode(ObjOf(srcs[i]))],
       !.command_executed =
           CmdList(<<CC>> \o [i \in 1..Len(srcs) |-> ObjOf(srcs[i])]
                   \o <<DashO, ProgP>> \o lib)]

\* the tasks of such a build, in the order the host completes them
CbTasks(srcs, debug, lib) ==
    [i \in 1..Len(srcs) |-> CbCompile(srcs[i], debug, i)]
    \o <<CbLink(srcs, lib, Len(srcs) + 1)>>

\* the patched process on each task of the list in turn, from the i-th
RECURSIVE ProcessAll(_, _, _, _)
ProcessAll(n, tasks, i, b) ==
    IF i > Len(tasks) \/ b.crash # "" THEN b
    ELSE ProcessAll(n, tasks, i + 1,
                    export_context_process(n, [b EXCEPT !.task = tasks[i]]))

InitCB ==
    /\ ctx = "export"
    /\ export_to = <<"codeblocks">>
    /\ env \in CbEnvs
    /\ pc = "idle"
    /\ nwrap = 0
    /\ nsess = 0
    /\ ntasks = 0
    /\ built = {}
    /\ hostError = FALSE
    /\ task = NoTask
    /\ targets = <<>>
    /\ commands = <<>>
    /\ failure = NoFailure
    /\ export_exception = NoException
    /\ components = <<>>
    /\ makefile = NoFile
    /\ cbp = <<>>
    /\ workspace = NoWorkspace
    /\ error = NoError
    /\ warned = {}
    /\ cppcheck = NoCppcheck

\* 'waf export --export-to=codeblocks' up to the end of the build: execute
\* patches the methods and cleans, the formatters are initialised, and the
\* host runs and processes every task of the build.
CbBuild ==
    /\ pc = "idle" /\ nsess < MaxSessions
    /\ \E srcs \in CbSources, debug \in BOOLEAN, lib \in CbLibs :
          LET tasks == CbTasks(srcs, debug, lib)
              b0 == [task |-> NoTask, targets |-> <<>>, commands |-> <<>>,
                     failure |-> NoFailure, export_exception |-> NoException,
                     components |-> <<>>, crash |-> "",
                     export_to |-> export_to, env |-> env]
              b == ProcessAll(1, tasks, 1, b0)
          IN  /\ task' = [b.task EXCEPT !.stage = "processed"]
              /\ components' = b.components
              /\ ntasks' = Len(tasks)
              /\ built' = {[rel |-> tasks[i].outputs[1].rel, ok |-> TRUE] :
                             i \in 1..Len(tasks)}
    /\ nwrap' = 1
    /\ nsess' = nsess + 1
    /\ pc' = "build"
    /\ UNCHANGED <<cppcheck, warned,
                   ctx, export_to, env, hostError, targets, commands, failure,
                   export_exception, makefile, cbp, workspace, error>>

\* waf is run again, possibly configured for another pair: a new process,
\* the codeblocks directory as the last run left it.
NextRun ==
    /\ pc = "done"
    /\ pc' = "idle"
    /\ env' \in CbEnvs
    /\ nwrap' = 0
    /\ ntasks' = 0
    /\ built' = {}
    /\ task' = NoTask
    /\ components' = <<>>
    /\ warned' = {}
    /\ UNCHANGED <<cppcheck, ctx, export_to, nsess, hostError, targets, commands, failure,
                   export_exception, makefile, cbp, workspace, error>>

NextCB ==
    \/ CbBuild
    \/ ExportPostfun
    \/ NextRun

SpecCB == InitCB /\ [][NextCB]_vars


\* ------------------------------------- builds with varied command lines ---
\* One session ('waf makefile', or 'waf export --export-to=makefile') over
\* a build whose tasks are drawn from compile tasks with one argument of a
\* kind the rewriter looks at, link tasks of the program with one such
\* argument, and link tasks with the outputs a link can have.
DllZ == <<"z", ".", "d", "l", "l">>
ArY == <<"y", ".", "a">>

\* the argument next to the compiler in a compile command
RwCompileArgs ==
    { <<"-", "I">> \o Root \o <<"/", "i">>,            \* -I<root>/i
      <<"-", "I">> \o Root \o <<"x", "/", "i">>,       \* -I<root>x/i
      <<"-", "I", "/", "o", "/", "i">>,                \* -I/o/i
      DotDotSlash \o SrcA,                                \* ../a.c
      DotDotSlash \o DotDotSlash \o SrcA,                 \* ../../a.c
      DotDotSlash \o <<".", "h", "/">> \o SrcA,           \* ../.h/a.c
      <<"-", "g">>, SrcA }

\* the argument next to the linker in a link command
RwLinkArgs ==
    { ObjA, DotDotSlash \o ObjA, ArY, DotDotSlash \o <<".", "h", "/">> \o ArY,
      <<"-", "L", ".">>, <<"-", "L", "s">>, <<"-", "l", "x">>,
      OutImplib \o DllZ \o DotA,                          \* ...,z.dll.a
      OutImplib \o <<"s", "/">> \o DllZ \o DotA,          \* ...,s/z.dll.a
      OutImplib \o DllZ \o DotA \o <<",", "-", "-", "k">>, \* ...,z.dll.a,--k
      Root \o <<"/", "d", ".", "d", "e", "f">> }          \* <root>/d.def

\* what a link task may produce: a program, a program whose name ends in
\* "so", a shared library, a static library, a DLL with its import library
\* (lib%s.dll.a-style, or %s.lib-style as with implib_PATTERN of msvc)
RwOutputs ==
    { [cls |-> "cprogram", outputs |-> <<BldNode(ProgP)>>],
      [cls |-> "cprogram", outputs |-> <<BldNode(<<"a", "l", "s", "o">>)>>],
      [cls |-> "cshlib", outputs |-> <<BldNode(LibX)>>],
      [cls |-> "cstlib", outputs |-> <<BldNode(ArY)>>],
      [cls |-> "cshlib", outputs |-> <<BldNode(DllZ), BldNode(DllZ \o DotA)>>],
      [cls |-> "cshlib", outputs |-> <<BldNode(<<"w", ".", "d", "l", "l">>),
                                      BldNode(<<"w", ".", "l", "i", "b">>)>>] }

RwKinds ==
    { [cls |-> "c", outputs |-> <<BldNode(ObjA)>>, inputs |-> <<SrcNode(SrcA)>>,
       dep_nodes |-> <<>>, cmd |-> <<CC, a, DashO, ObjA>>] : a \in RwCompileArgs }
    \cup
    { [cls |-> "cprogram", outputs |-> <<BldNode(ProgP)>>,
       inputs |-> <<BldNode(ObjA)>>, dep_nodes |-> <<>>,
       cmd |-> <<CC, a, DashO, ProgP>>] : a \in RwLinkArgs }
    \cup
    { [cls |-> o.cls, outputs |-> o.outputs, inputs |-> <<BldNode(ObjA)>>,
       dep_nodes |-> <<>>,
       cmd |-> <<CC, ObjA, DashO, relpath(o.outputs[1])>>] : o \in RwOutputs }

InitRW ==
    /\ Init
    /\ export_to = <<"makefile">>

\* The host runs a task of the build; its run() hands the argument list to
\* exec_command (the patched one), and the command succeeds.
RwRun ==
    /\ pc = "build" /\ task.stage # "ran" /\ ntasks < MaxTasks
    /\ \E kind \in RwKinds :
          /\ \A x \in built : x.rel # kind.outputs[1].rel
          /\ LET r == exec_command(nwrap, NewTask(kind, ntasks + 1),
                                   CmdList(kind.cmd), FALSE, "ret0")
             IN  task' = [r.task EXCEPT
                            !.stage = "ran",
                            !.call = [k |-> CmdList(kind.cmd), hasCwd |-> FALSE,
                                      orig |-> "ret0", result |-> r.result,
                                      origCalls |-> r.origCalls,
                                      origArgs |-> r.origArgs]]
          /\ built' = built \cup {[rel |-> kind.outputs[1].rel, ok |-> TRUE]}
    /\ ntasks' = ntasks + 1
    /\ UNCHANGED <<cppcheck, warned,
                   ctx, export_to, env, pc, nwrap, nsess, hostError, targets, commands,
                   failure, export_exception, components, makefile, cbp, workspace,
                   error>>

NextRW ==
    \/ MakefileContext_execute
    \/ ExportContext_execute
    \/ Clean
    \/ BuildStart
    \/ RwRun
    \/ Process
    \/ MakefilePostfun
    \/ ExportPostfun

SpecRW == InitRW /\ [][NextRW]_vars


\* ------------------------------------------------- a cppcheck task runs ---
\* the variables of the export session
session == <<warned, ctx, export_to, env, pc, nwrap, nsess, ntasks, built, hostError,
             task, targets, commands, failure, export_exception, components,
             makefile, cbp, workspace, error>>

\* cppcheck_execute(self): unless checking is skipped (by option, by the
\* configuration or by the task generator) the task is created; 'error' is
\* fatal unless --cppcheck-err-resume is given
cppcheck_execute ==
    /\ cppcheck = NoCppcheck
    /\ \E skip \in BOOLEAN, cppcheck_err_resume \in BOOLEAN :
          cppcheck' = IF skip THEN [NoCppcheck EXCEPT !.result = "skipped"]
                      ELSE [NoCppcheck EXCEPT
                              !.step = 1,
                              !.fatal = IF cppcheck_err_resume THEN <<>>
                                        ELSE <<"error">>]
    /\ UNCHANGED session

\* the step of run() the task is at
AtStep(name) ==
    /\ cppcheck.result = "none" /\ cppcheck.step \in 1..Len(run_steps)
    /\ run_steps[cppcheck.step] = name
\* the step is done: the next one, or return 0 after the last
Done(c) ==
    IF c.step = Len(run_steps) THEN [c EXCEPT !.result = "ret0"]
    ELSE [c EXCEPT !.step = @ + 1]
\* run(): cmd_and_log runs the analyzer and raises when it fails; then
\* cppcheck.xml is written and the report is read from stderr
cmd_and_log ==
    /\ AtStep("cmd_and_log")
    /\ \/ cppcheck' = [cppcheck EXCEPT !.result = "WafError"]
       \/ \E n \in 0..MaxDefects : \E stderr \in [1..n -> Defects] :
             cppcheck' = Done([cppcheck EXCEPT
                                 !.written = @ \cup {ReportFiles.xml},
                                 !.report = get_report(stderr)])
    /\ UNCHANGED session

\* _create_html_files(report): one page per reported file, numbered in the
\* order of the keys of a dict; a page whose markup (the messages of its
\* defects, put in the highlighted source) does not parse raises and ends
\* the task, the pages before it are written
create_html_files ==
    /\ AtStep("_create_html_files")
    /\ \E names \in Perms(ReportedFiles(cppcheck.report)) :
          LET r == cppcheck.report
              bad == {i \in 1..Len(names) :
                        \E j \in 1..Len(r) :
                           r[j].file = names[i] /\ ~WellFormed(r[j].msg)}
              n == IF bad = {} THEN Len(names)
                   ELSE (CHOOSE i \in bad : \A j \in bad : i <= j) - 1
              c == [cppcheck EXCEPT !.written = @ \cup {HtmlFile(i - 1) : i \in 1..n}]
          IN  cppcheck' = IF bad = {} THEN Done(c)
                          ELSE [c EXCEPT !.result = "ParseError"]
    /\ UNCHANGED session

\* _create_html_index(files): the table of the defects of the pages
create_html_index ==
    /\ AtStep("_create_html_index")
    /\ cppcheck' = Done([cppcheck EXCEPT !.written = @ \cup {ReportFiles.index}])
    /\ UNCHANGED session

\* _create_css_file()
create_css_file ==
    /\ AtStep("_create_css_file")
    /\ cppcheck' = Done([cppcheck EXCEPT !.written = @ \cup {ReportFiles.css}])
    /\ UNCHANGED session

\* _errors_evaluate(errors, http_index): bld.fatal when a severity of the
\* report is fatal, else an error is logged when the report is not empty
errors_evaluate ==
    /\ AtStep("_errors_evaluate")
    /\ LET severity == {cppcheck.report[i].severity : i \in 1..Len(cppcheck.report)}
       IN  cppcheck' =
              IF Range(cppcheck.fatal) \cap severity # {}
              THEN [cppcheck EXCEPT !.result = "fatal"]
              ELSE Done([cppcheck EXCEPT !.logged = (Len(cppcheck.report) > 0)])
    /\ UNCHANGED session

InitCK ==
    /\ Init
    /\ ctx = "makefile"

NextCK ==
    \/ cppcheck_execute
    \/ cmd_and_log
    \/ create_html_files
    \/ create_html_index
    \/ create_css_file
    \/ errors_evaluate

SpecCK == InitCK /\ [][NextCK]_vars


\* ------------------------------------------------------------ claims ---
\* the export step: the host has finished the build and runs postfun
ExportStep == pc = "build" /\ pc' \in {"done", "crash", "fatal"}

\* C1: whenever the --export-to selection holds a name outside the
\* supported set (alone, with supported names, or empty), execute ends in
\* the fatal configuration error before the clean and before any task, and
\* no Makefile, project or workspace file is written.
C1_UnsupportedFormatIsFatal ==
    (ctx = "export" /\ Range(export_to) \ exporters # {})
        => /\ pc \in {"idle", "fatal"}
           /\ ntasks = 0
           /\ makefile = NoFile
           /\ cbp = <<>>
           /\ ~workspace.exists

\* C2: once the rewriting of the command of a compile or link task has
\* raised in a session whose build goes on, the session does not end well
\* and writes no Makefile, and the fatal error it ends in names the task;
\* for MakefileContext and for the exporter's Makefile formatter.
C2_RewriteFailureAbortsExport ==
    ((failure.set \/ export_exception.set) /\ ~hostError)
        => /\ pc \in {"build", "fatal", "crash"}
           /\ makefile = NoFile
           /\ (pc = "fatal" => error.tsk # 0)

\* the key of the program in the component map, and its project file
ProgKey == BldAbs(ProgP)
ProgCbp == CbpName(ProgP)
\* the Depends of the first Project element of that filename
RECURSIVE DependsOf(_, _)
DependsOf(elems, name) ==
    IF elems = <<>> THEN <<>>
    ELSE IF Head(elems).filename = name THEN Head(elems).depends
    ELSE DependsOf(Tail(elems), name)
Listed(ws, name) == \E i \in 1..Len(ws.projects) : ws.projects[i].filename = name
NoDuplicates(lst) == \A i, j \in 1..Len(lst) : lst[i] = lst[j] => i = j
\* the library names the program is linked against in this build
ProgDepends ==
    {LStrip(c, {"-", "l"}) : c \in Range(SelectSeq(components[ProgKey].command, IsLib))}
\* the project files of this build can be written
ProjectsWritable ==
    ExportProjects(env, components, SetToSeq(LinkKeys(components)), 1, cbp, <<>>).crash = ""

\* C3: when the workspace on disk lists the project, with whatever Depends
\* entries, the workspace update of an export completes and leaves the
\* project with exactly the dependencies of this build, each once.
C3_WorkspaceDependsReplaced ==
    [][(ExportStep /\ Listed(workspace, ProgCbp) /\ ProjectsWritable)
          => /\ pc' = "done"
             /\ Range(DependsOf(workspace'.projects, ProgCbp)) = ProgDepends
             /\ NoDuplicates(DependsOf(workspace'.projects, ProgCbp))]_vars

\* C4: an export keeps every Target of the project file whose title is not
\* the title of the current pair, with or without the -debug suffix.
C4_OtherTargetsPreserved ==
    [][ExportStep
          => \A i \in 1..Len(DiskGet(cbp, ProgCbp).targets) :
                LET T == DiskGet(cbp, ProgCbp).targets[i]
                IN  T.title \notin {TargetTitle(env), TargetTitle(env) \o DebugSuffix}
                       => T \in Range(DiskGet(cbp', ProgCbp).targets)]_vars

\* the targets of the project file whose title starts with the pair's
PairTargets(doc, e) ==
    {i \in 1..Len(doc.targets) : StartsWith(doc.targets[i].title, TargetTitle(e))}

\* C5: after an export has written the project file, new or found on disk
\* after earlier exports, it holds exactly one Target whose title starts
\* with <DEST_OS>-<DEST_CPU>.
C5_OneTargetPerPair ==
    (pc = "done" /\ ProgCbp \in DOMAIN cbp)
        => Cardinality(PairTargets(cbp[ProgCbp], env)) = 1

\* C5 witness: a second export found the project file of the first and
\* left a single target in it
C5_Witness ==
    /\ pc = "done" /\ nsess = 2
    /\ ProgCbp \in DOMAIN cbp
    /\ Len(cbp[ProgCbp].targets) = 1
    /\ EndsWith(cbp[ProgCbp].targets[1].title, DebugSuffix)

\* the sources of the program in this build
ProgSources ==
    Range(Flatten([i \in 1..Len(components[ProgKey].inputs) |->
                     components[components[ProgKey].inputs[i]].inputs]))

\* C6: whatever Units the project file holds and whatever the sources of
\* the program are, the project export completes and the Units written
\* are the union of both, no filename twice.
C6_UnitsAreUnion ==
    [][ExportStep
          => /\ codeblocks_project(env, components, components[ProgKey],
                                   DiskGet(cbp, ProgCbp)).crash = ""
             /\ Range(DiskGet(cbp', ProgCbp).units)
                   = Range(DiskGet(cbp, ProgCbp).units) \cup ProgSources
             /\ NoDuplicates(DiskGet(cbp', ProgCbp).units)]_vars

\* C7: the Makefile text written does not depend on the moment the export
\* runs: an export of the same targets and commands at any other moment
\* writes the same text.
C7_MakefileDeterministic ==
    makefile.exists
        => \A time \in Times :
              makefile.lines = IF ctx = "makefile"
                               THEN makefile_export(targets, commands, time)
                               ELSE export_makefile(targets, commands, time)

\* C8: after every call of the patched exec_command, whether the original
\* returned zero or non-zero or raised, the task holds the first positional
\* argument ('' when there is none) as command_executed and the cwd keyword
\* argument (bld.cwd when there is none) as path.
C8_CommandRecordedAlways ==
    (task.stage = "ran" /\ task.call.orig # "none")
        => /\ task.command_executed =
                 (IF task.call.k.kind = "unset" THEN CmdStr(<<>>) ELSE task.call.k)
           /\ task.path = [set |-> TRUE,
                           dir |-> IF task.call.hasCwd THEN KwCwd ELSE BldCwd]

\* C9: the patched exec_command calls the original exactly once, with the
\* arguments it was called with, and ends as the original ended: the same
\* return value, or the exception it raised.
C9_InterceptorTransparent ==
    (task.stage = "ran" /\ task.call.orig # "none")
        => /\ task.call.origCalls = 1
           /\ task.call.origArgs = [k |-> task.call.k, hasCwd |-> task.call.hasCwd]
           /\ task.call.result = task.call.orig

\* C9 witness: under two layers of patches a command failed, and the
\* caller saw the failure
C9_Witness ==
    /\ task.stage = "ran" /\ nwrap = 2
    /\ task.call.orig = "ret1" /\ task.call.result = "ret1"

\* C10: once the interceptor has set command_executed on a task, the
\* attribute keeps that value for as long as the task is in use.
C10_CommandWriteOnce ==
    [][(task.command_executed.kind # "unset" /\ task'.id = task.id)
          => task'.command_executed = task.command_executed]_vars

\* C11: when the patched process has run a task whose class is none of c,
\* cxx, cprogram, cshlib, cstlib, cxxprogram, cxxshlib, cxxstlib, the
\* formatters raise nothing and leave the target list, the command list,
\* the failure record and the component map as they were.
C11_UnknownKindsIgnored ==
    [][(pc = "build" /\ task.stage = "ran"
        /\ task.cls \notin CompileClasses \cup LinkClasses)
          => /\ targets' = targets
             /\ commands' = commands
             /\ failure' = failure
             /\ export_exception' = export_exception
             /\ components' = components
             /\ pc' = "build" /\ error' = error]_vars

\* C11 witness: a task of another class was processed after a compile task
\* had been recorded
C11_Witness ==
    /\ task.stage = "processed" /\ task.cls = "copy"
    /\ targets # <<>> /\ pc = "build"

\* the pieces of s between the occurrences of the character ch
RECURSIVE Pieces(_, _, _)
Pieces(s, ch, cur) ==
    IF s = <<>> THEN <<cur>>
    ELSE IF Head(s) = ch THEN <<cur>> \o Pieces(Tail(s), ch, <<>>)
    ELSE Pieces(Tail(s), ch, Append(cur, Head(s)))

\* the argument list the interceptor captured for the task, and the
\* arguments of the command text the rewriter left on it
Captured == task.call.k.lst
Rewritten == Pieces(task.command_executed.str, ArgSep[1], <<>>)
\* a compile (link) task has been through the rewriter
CompileRewritten ==
    task.stage = "processed" /\ task.cls \in CompileClasses /\ task.call.k.kind = "list"
LinkRewritten ==
    task.stage = "processed" /\ task.cls \in LinkClasses /\ task.call.k.kind = "list"
\* the path is a path below the root directory
UnderRoot(p) == StartsWith(p, Root \o <<"/">>)
\* "<top>/<x>"
Relocated(x) == Top \o <<"/">> \o x

\* C12: in a rewritten compile command, every -I<p> with p below the root
\* has become -I<p relative to the root>, and every other -I<p> is as it
\* was captured.
C12_IncludeRelativeToRoot ==
    CompileRewritten
        => \A i \in 1..Len(Captured) :
              IsInclude(Captured[i])
                 => /\ i <= Len(Rewritten)
                    /\ Rewritten[i] =
                          IF UnderRoot(DropN(Captured[i], 2))
                          THEN <<"-", "I">> \o DropN(Captured[i], 2 + Len(Root) + 1)
                          ELSE Captured[i]

\* C13: every captured argument that starts with "../" comes out as the
\* argument without these three characters, kept as it is or relocated as
\* an object or archive path; and an argument that is neither such a path,
\* nor an -I flag, nor a path starting with the root, nor an import library
\* flag, does not come out shorter.
C13_ParentMarkerStripped ==
    (CompileRewritten \/ LinkRewritten)
        => \A i \in 1..Len(Captured) :
              /\ i <= Len(Rewritten)
              /\ StartsWith(Captured[i], DotDotSlash)
                    => Rewritten[i] \in {DropN(Captured[i], 3),
                                         Relocated(DropN(Captured[i], 3))}
              /\ (/\ ~StartsWith(Captured[i], DotDotSlash)
                  /\ ~IsInclude(Captured[i])
                  /\ ~StartsWith(Captured[i], Root)
                  /\ ~StartsWith(Captured[i], OutImplib))
                    => Len(Rewritten[i]) >= Len(Captured[i])

\* C14: in a rewritten link command, every argument -Wl,--out-implib,<p>
\* has become -Wl,--out-implib,<top>/<p>, with all of p.
C14_ImplibRelocated ==
    LinkRewritten
        => \A i \in 1..Len(Captured) :
              StartsWith(Captured[i], OutImplib)
                 => /\ i <= Len(Rewritten)
                    /\ Rewritten[i] =
                          OutImplib \o Relocated(DropN(Captured[i], Len(OutImplib)))

\* an argument one of the rewriting rules is about
Rewritable(c) ==
    \/ IsInclude(c) /\ UnderRoot(DropN(c, 2))
    \/ StartsWith(c, DotDotSlash)
    \/ EndsWith(c, DotO)
    \/ StartsWith(c, <<"-", "L">>)
    \/ StartsWith(c, OutImplib)
    \/ EndsWith(c, DotA)

\* C15: a rewritten compile or link command has as many arguments as the
\* captured one, and every argument that no rewriting rule is about is at
\* its place, unchanged.
C15_OthersPassThrough ==
    (CompileRewritten \/ LinkRewritten)
        => /\ Len(Rewritten) = Len(Captured)
           /\ \A i \in 1..Len(Captured) :
                 ~Rewritable(Captured[i]) => Rewritten[i] = Captured[i]

\* The Makefile as make reads it: a "\n\t" inside a line of the text
\* starts a new line with a tab.
MakeLines(lines) ==
    Flatten([i \in 1..Len(lines) |->
               LET ps == Pieces(lines[i], NewLineTab[1], <<>>)
               IN  [j \in 1..Len(ps) |-> IF j = 1 THEN ps[j] ELSE <<Tab>> \o ps[j]]])
\* the index of the first line equal to l from the i-th on, 0 if none
RECURSIVE IndexOf(_, _, _)
IndexOf(lines, l, i) ==
    IF i > Len(lines) THEN 0
    ELSE IF lines[i] = l THEN i ELSE IndexOf(lines, l, i + 1)
\* the lines before the first empty one
RECURSIVE UpToBlank(_)
UpToBlank(lines) ==
    IF lines = <<>> \/ Head(lines) = <<>> THEN <<>>
    ELSE <<Head(lines)>> \o UpToBlank(Tail(lines))
\* the recipe of a rule of the Makefile written: the lines after the
\* rule's first line, up to the next empty line
Recipe(head) ==
    LET ls == MakeLines(makefile.lines)
        i == IndexOf(ls, head, 1)
    IN  IF i = 0 THEN <<>> ELSE UpToBlank(DropN(ls, i))

\* a recipe line "cp <source> <destination>", its source and destination
IsCp(l) == Len(l) >= 2 /\ l[1] = Tab /\ l[2] = "cp "
RECURSIVE UpToGap(_)
UpToGap(s) ==
    IF s = <<>> \/ Head(s) \in {" ", "  "} THEN <<>>
    ELSE <<Head(s)>> \o UpToGap(Tail(s))
CpSource(l) == UpToGap(DropN(l, 2))
CpDest(l) == DropN(l, 2 + Len(CpSource(l)) + 1)
\* a recipe line "rm -rf <path>", and its path
IsRm(l) == Len(l) >= 2 /\ l[1] = Tab /\ l[2] \in {"rm -rf ", "rm -rf  "}
RmPath(l) == DropN(l, 2)

\* the prefix, as a Makefile may show it
PrefixShown == {Prefix, <<"$PREFIX">>, <<"$(PREFIX)">>}
\* the install recipe copies the target into the directory <prefix>/<sub>
CopiedTo(sub, t) ==
    \E i \in 1..Len(Recipe(<<"install:">>)) :
       LET l == Recipe(<<"install:">>)[i]
       IN  /\ IsCp(l)
           /\ CpSource(l) = t
           /\ \E P \in PrefixShown : CpDest(l) = P \o sub \o <<"/">> \o Basename(t)
Bin == <<"/", "b", "i", "n">>
Lib == <<"/", "l", "i", "b">>
DotSo == <<".", "s", "o">>

\* C16, as stated: the install recipe of a Makefile written copies to bin
\* every recorded target that ends neither in .a nor in .o, and to lib
\* every recorded target that ends in .so.
C16_InstallCopies ==
    makefile.exists
        => \A i \in 1..Len(targets) :
              /\ (~EndsWith(targets[i], DotA) /\ ~EndsWith(targets[i], DotO))
                    => CopiedTo(Bin, targets[i])
              /\ EndsWith(targets[i], DotSo) => CopiedTo(Lib, targets[i])

\* C16, amended: the install recipe of a Makefile written copies to bin
\* every recorded target that ends neither in .a, nor in .o, nor in .so,
\* and to lib every recorded target that ends in .so.
C16_InstallCopiesAmended ==
    makefile.exists
        => \A i \in 1..Len(targets) :
              /\ (/\ ~EndsWith(targets[i], DotA) /\ ~EndsWith(targets[i], DotO)
                  /\ ~EndsWith(targets[i], DotSo))
                    => CopiedTo(Bin, targets[i])
              /\ EndsWith(targets[i], DotSo) => CopiedTo(Lib, targets[i])

\* C16 witness: a Makefile was written for a build that made a DLL with its
\* import library and a shared library
C16_Witness ==
    /\ makefile.exists
    /\ Relocated(LibX) \in Range(targets)
    /\ Relocated(DllZ) \in Range(targets)
    /\ CopiedTo(Bin, Relocated(DllZ)) /\ CopiedTo(Lib, Relocated(LibX))

\* the prerequisites of the rule 'all' of the Makefile written
AllPrerequisites ==
    LET r == Recipe(<<"all: \\">>)
    IN  IF r = <<>> \/ r[1] = <<Tab>> THEN <<>>
        ELSE Pieces(DropN(r[1], 1), ArgSep[1], <<>>)
\* the recorded targets that do not end in .dll.a, each ending in .o as it
\* is and each other one as its base name
RECURSIVE ExpectedAll(_)
ExpectedAll(tgts) ==
    IF tgts = <<>> THEN <<>>
    ELSE LET t == Head(tgts)
         IN  (IF EndsWith(t, DllA) THEN <<>>
              ELSE IF EndsWith(t, DotO) THEN <<t>>
              ELSE <<DropN(t, LastSlash(t, Len(t)))>>)
             \o ExpectedAll(Tail(tgts))
\* the paths the recipe of the rule removes, in order
Removed(head) ==
    LET r == SelectSeq(Recipe(head), IsRm) IN [i \in 1..Len(r) |-> RmPath(r[i])]

\* C17: in a Makefile written, the prerequisites of 'all' are the recorded
\* targets that are not import libraries, in recording order, objects as
\* their full relative path and the others as their base name; and 'clean'
\* removes every recorded target, import libraries too.
C17_AllAndClean ==
    makefile.exists
        => /\ AllPrerequisites = ExpectedAll(targets)
           /\ Removed(<<"clean:">>) = targets

\* C17 witness: a Makefile was written for a build that compiled an object
\* and linked a DLL with its import library
C17_Witness ==
    /\ makefile.exists
    /\ Relocated(ObjA) \in Range(targets)
    /\ Relocated(DllZ \o DotA) \in Range(targets)
    /\ Len(AllPrerequisites) = 2

\* the destinations the install recipe copies to, in order
Installed ==
    LET r == SelectSeq(Recipe(<<"install:">>), IsCp) IN [i \in 1..Len(r) |-> CpDest(r[i])]

\* C18: in a Makefile written, the paths the uninstall recipe removes are
\* the destinations of the cp lines of the install recipe, in the same
\* order.
C18_UninstallMirrorsInstall ==
    makefile.exists => Removed(<<"uninstall:">>) = Installed

\* C18 witness: a Makefile was written that installs a program and a
\* shared library
C18_Witness ==
    /\ makefile.exists
    /\ Len(Installed) >= 2
    /\ CopiedTo(Bin, Relocated(ProgP)) /\ CopiedTo(Lib, Relocated(LibX))

\* the lines of the Makefile written, without the header
Body == DropN(makefile.lines, Len(Header("t1", Prefix)))

\* C19: in a Makefile written by either emitter, the header shows
\* PREFIX=<the prefix path>, no line after the header holds the prefix
\* path, and the directories of the install recipe are given as
\* $(PREFIX)/bin and $(PREFIX)/lib.
C19_PrefixPlaceholder ==
    makefile.exists
        => /\ (<<"PREFIX=">> \o Prefix) \in Range(makefile.lines)
           /\ \A i \in 1..Len(Body) : ~Contains(Body[i], Prefix)
           /\ <<Tab, "mkdir -p ", "$(PREFIX)">> \o Bin \in Range(Body)
           /\ <<Tab, "mkdir -p ", "$(PREFIX)">> \o Lib \in Range(Body)

\* the text of the arguments of the command that start with the flag,
\* without the flag
FlagValues(command, flag) ==
    {DropN(command[i], Len(flag)) :
        i \in {j \in 1..Len(command) : StartsWith(command[j], flag)}}
\* the commands of the compile tasks whose objects the program is linked from
ProgCompileCommands ==
    Flatten([i \in 1..Len(components[ProgKey].inputs) |->
               components[components[ProgKey].inputs[i]].command])
\* the Target the export has just written for the program
ProgTarget == cbp[ProgCbp].targets[Len(cbp[ProgCbp].targets)]

\* C20: when an export has written the project of the program, the
\* libraries of its target are the names of the -l<name> arguments of the
\* link command, its include directories the paths of the -I<path>
\* arguments of the compile commands, and the dependencies the project
\* export returns are these library names.
C20_LibsAndIncludes ==
    (pc = "done" /\ ProgCbp \in DOMAIN cbp /\ ProgKey \in DOMAIN components)
        => /\ ProgTarget.libs = FlagValues(components[ProgKey].command, <<"-", "l">>)
           /\ ProgTarget.includes = FlagValues(ProgCompileCommands, <<"-", "I">>)
           /\ codeblocks_project(env, components, components[ProgKey], NoDoc).depends
                 = FlagValues(components[ProgKey].command, <<"-", "l">>)

\* the post-processing step of a task that ran, and the state the
\* formatters start from
ProcessStep == pc = "build" /\ task.stage = "ran" /\ task'.stage = "processed"
Before ==
    [task |-> task, targets |-> targets, commands |-> commands,
     failure |-> failure, export_exception |-> export_exception,
     components |-> components, crash |-> "", export_to |-> export_to, env |-> env]
\* the formatters of the command, run once over the task
ProcessedOnce ==
    IF ctx = "makefile" THEN makefile_process(Before)
    ELSE codeblocks_process(wafexport_makefile_process(Before))

\* C21: in a session the post-processing of a completed task runs exactly
\* once (the lists and the components are those one run of the formatters
\* leaves), the emitter runs only when no completed task waits for its
\* post-processing, and once it has run the session runs no other task.
C21_ProcessedOnceThenEmitted ==
    [][ /\ ProcessStep => /\ targets' = ProcessedOnce.targets
                          /\ commands' = ProcessedOnce.commands
                          /\ components' = ProcessedOnce.components
        /\ ExportStep /\ task' = task => task.stage # "ran"
        /\ ntasks' > ntasks => pc = "build" /\ pc' = "build" ]_vars

\* the target lines of the rule blocks: the lines of the command list that
\* do not start with a tab
IsTargetLine(l) == l = <<>> \/ l[1] # Tab
BlockTargets(cmds) == SelectSeq(cmds, IsTargetLine)
\* the target line of the block of a compile task, and of a link task
BlockTargetOf(t) ==
    IF t.cls \in CompileClasses THEN TopPath(t.outputs[1]) \o <<":">>
    ELSE Basename(TopPath(t.outputs[1])) \o <<": \\">>
\* the Makefile formatter is in use
MakefileFormatter == ctx = "makefile" \/ makefile_selected(export_to)

\* C22: as long as no rewrite has failed, the post-processing of each
\* compile or link task appends exactly one rule block to the command list,
\* after the blocks already there: one target line, that of the task,
\* followed by tab-indented lines only.
C22_OneBlockPerTask ==
    [][ (/\ ProcessStep /\ MakefileFormatter
         /\ task.cls \in CompileClasses \cup LinkClasses
         /\ ~failure'.set /\ ~export_exception'.set)
          => /\ Len(commands') > Len(commands)
             /\ SubSeq(commands', 1, Len(commands)) = commands
             /\ BlockTargets(commands') = BlockTargets(commands) \o <<BlockTargetOf(task)>> ]_vars

\* the emitter's step: the host has run the post function (the task is
\* left as it was)
EmitStep == ExportStep /\ task' = task

\* C23: when the session ends with an empty target list, the emitter of
\* the Makefile writes no Makefile, the command ends well, and the
\* warning that no suitable target was found has been logged.
C23_NoTargetsIsWarning ==
    [][ (EmitStep /\ MakefileFormatter /\ targets = <<>>)
          => /\ makefile' = makefile
             /\ pc' = "done"
             /\ NoTargetsWarning \in warned' ]_vars

\* C25: the clean runs only once the methods are patched and the post
\* function is registered, the build starts only after the clean has
\* ended, and tasks run only in the build.
C25_CleanBeforeBuild ==
    [][ /\ pc' = "cleaned" => pc = "patched" /\ nwrap >= 1
        /\ (pc' = "build" /\ pc # "build") => pc = "cleaned"
        /\ ntasks' > ntasks => pc = "build" ]_vars
\* a task of the second session's build has run
C25_Witness == pc = "build" /\ nsess = 2 /\ ntasks >= 1 /\ task.stage = "ran"

\* C26: in every session, the first or a later one of the process, each
\* output of a completed task is in the session's target list once and
\* the command list holds one rule block per target line (no output is
\* made by two tasks of a build).
C26_OncePerSession ==
    MakefileFormatter
        => /\ NoDuplicates(targets)
           /\ NoDuplicates(BlockTargets(commands))

\* the name a rule block is for: its target line up to the colon
BlockName(l) ==
    IF EndsWith(l, <<": \\">>) THEN SubSeq(l, 1, Len(l) - 1)
    ELSE IF EndsWith(l, <<":">>) THEN SubSeq(l, 1, Len(l) - 1)
    ELSE l
\* how many rule blocks of the command list are for the name
BlocksFor(name) ==
    Cardinality({j \in 1..Len(BlockTargets(commands)) :
                    BlockName(BlockTargets(commands)[j]) = name})

\* C27: while no rewrite failure is recorded, every recorded target that
\* is not a .dll.a has, under the name 'all' lists it by (itself when it
\* ends in .o, its base name otherwise), exactly one rule block.
C27_EveryPrerequisiteHasRule ==
    (MakefileFormatter /\ ~failure.set /\ ~export_exception.set)
        => \A i \in 1..Len(targets) :
              ~EndsWith(targets[i], DllA) => BlocksFor(AllName(targets[i])) = 1

\* the rewrite of the command of the task being post-processed raised
RewriteRaised ==
    \/ failure'.set /\ failure'.tsk = task.id
    \/ export_exception'.set /\ export_exception'.tsk = task.id

\* C28: when the rewrite of the command of a compile or link task raises,
\* the post-processing of the task leaves the target list and the command
\* list as they were.
C28_FailedRewriteContributesNothing ==
    [][ (ProcessStep /\ MakefileFormatter /\ RewriteRaised)
          => targets' = targets /\ commands' = commands ]_vars

\* the build has ended well and the post function of ExportContext is
\* about to write the Code::Blocks projects
AtEmission ==
    /\ ctx = "export" /\ codeblocks_selected(export_to)
    /\ pc = "build" /\ task.stage # "ran" /\ ~hostError

\* C29: when the projects are about to be written, every input path of
\* every link component is a key of the component map.
C29_LinkInputsAreComponents ==
    AtEmission
        => \A k \in LinkKeys(components) :
              \A i \in 1..Len(components[k].inputs) :
                 components[k].inputs[i] \in DOMAIN components

\* the task has ended after the analyzer delivered its report
Ended == cppcheck.result \notin {"none", "skipped", "WafError"}
\* the report holds a defect of severity 'error'
HasError == \E i \in 1..Len(cppcheck.report) : cppcheck.report[i].severity = "error"

\* C24: a cppcheck task that got the analyzer's report ends in bld.fatal
\* when the report holds a defect of severity 'error' and
\* --cppcheck-err-resume was not given; in every other case it returns 0,
\* and has logged a message exactly when the report holds a defect.
C24_AbortOnErrorOnly ==
    Ended
        => IF HasError /\ cppcheck.fatal = <<"error">>
           THEN cppcheck.result = "fatal"
           ELSE /\ cppcheck.result = "ret0"
                /\ cppcheck.logged <=> Len(cppcheck.report) > 0

\* the report that the message of bld.fatal links to is on disk: the xml
\* file, one page per reported file, the index and the style sheet
ReportOnDisk ==
    /\ {ReportFiles.xml, ReportFiles.index, ReportFiles.css}
          \subseteq cppcheck.written
    /\ \A i \in 1..Cardinality(ReportedFiles(cppcheck.report)) :
          HtmlFile(i - 1) \in cppcheck.written

\* C30: when the task aborts the build because of a cppcheck error, the
\* xml report, the html pages, the index and the css file are written.
C30_ReportWrittenBeforeAbort == cppcheck.result = "fatal" => ReportOnDisk
\* the build is aborted for an error located in a file, next to a defect
\* of another file
C30_Witness ==
    /\ cppcheck.result = "fatal"
    /\ Cardinality(ReportedFiles(cppcheck.report)) = 2

=============================================================================
